---- MODULE Spec2Model ----
(***************************************************************************)
(* Binomial-lattice valuation of a convertible bond (src/zz.py):           *)
(* calculate_cb_value and calculate_cb_with_reset, modelled statement by   *)
(* statement.  Real numbers are exact rationals <<numerator, denominator>>.*)
(* The two transcendental inputs of the lattice, exp(sigma*sqrt(dt)) and   *)
(* exp(r*dt), are drawn from small sets of rationals: a choice of          *)
(* (sigma, T, steps) fixes the first and a choice of (r, T, steps) the     *)
(* second, and everything the code computes afterwards is rational         *)
(* arithmetic on them.  A float division by zero does not raise: it gives  *)
(* inf, -inf or nan, written <<1, 0>>, <<-1, 0>> and <<0, 0>>.              *)
(***************************************************************************)
EXTENDS Integers, Sequences, FiniteSets, TLC

VARIABLES par, pc, i, j, values, st, current_bond_floor, k_new, v_after_reset,
          result, calls

vars ==
  <<par, pc, i, j, values, st, current_bond_floor, k_new, v_after_reset, result,
    calls>>

---------------------------------------------------------------------------
(* Exact rational arithmetic *)

Abs(n) == IF n < 0 THEN -n ELSE n

RECURSIVE Gcd(_, _)
Gcd(a, b) == IF b = 0 THEN a ELSE Gcd(b, a % b)

Sign(n) == IF n < 0 THEN -1 ELSE IF n > 0 THEN 1 ELSE 0

Norm(n, d) ==
  IF d = 0 THEN <<Sign(n), 0>>
  ELSE LET s == IF d < 0 THEN -1 ELSE 1
           g == Gcd(Abs(n), Abs(d))
       IN <<(s * n) \div g, (s * d) \div g>>

Q(n, d) == Norm(n, d)
Z(n) == <<n, 1>>

\* an operand is an expression: x and y hold its value, worked out once
RAdd(a, b) ==
  CHOOSE r \in {Norm(x[1] * y[2] + y[1] * x[2], x[2] * y[2]) : x \in {a}, y \in {b}} :
    TRUE
RSub(a, b) ==
  CHOOSE r \in {Norm(x[1] * y[2] - y[1] * x[2], x[2] * y[2]) : x \in {a}, y \in {b}} :
    TRUE
RMul(a, b) ==
  CHOOSE r \in {Norm(x[1] * y[1], x[2] * y[2]) : x \in {a}, y \in {b}} : TRUE
RDiv(a, b) ==
  CHOOSE r \in {Norm(x[1] * y[2], x[2] * y[1]) : x \in {a}, y \in {b}} : TRUE
IsNaN(a) == a[1] = 0 /\ a[2] = 0
IsFinite(a) == a[2] # 0
\* every comparison with nan is false; inf and -inf bound the finite values
RLe(a, b) ==
  /\ ~IsNaN(a)
  /\ ~IsNaN(b)
  /\ IF IsFinite(a) /\ IsFinite(b) THEN a[1] * b[2] <= b[1] * a[2]
     ELSE IF IsFinite(a) THEN b[1] > 0
     ELSE IF IsFinite(b) THEN a[1] < 0
     ELSE a[1] <= b[1]
RLt(a, b) ==
  /\ ~IsNaN(a)
  /\ ~IsNaN(b)
  /\ IF IsFinite(a) /\ IsFinite(b) THEN a[1] * b[2] < b[1] * a[2]
     ELSE IF IsFinite(a) THEN b[1] > 0
     ELSE IF IsFinite(b) THEN a[1] < 0
     ELSE a[1] < b[1]
RMax(a, b) ==
  CHOOSE r \in {IF RLt(x, y) THEN y ELSE x : x \in {a}, y \in {b}} : TRUE
RMin(a, b) ==
  CHOOSE r \in {IF RLt(y, x) THEN y ELSE x : x \in {a}, y \in {b}} : TRUE

RECURSIVE RPow(_, _)
RPow(a, n) == IF n = 0 THEN Z(1) ELSE RMul(a, RPow(a, n - 1))

---------------------------------------------------------------------------
(* Bounds and input sets *)

MaxSteps == 2

S0Set == {Z(50), Z(100)}
KSet == {Z(80), Z(100)}
\* exp(sigma * sqrt(dt)): the up factor u
USet == {Q(3, 2), Z(2)}
\* exp(r * dt): 1 is r = 0; 3 exceeds u, a rate the volatility cannot carry
GrowthSet == {Z(1), Q(5, 4), Z(3)}
PureBondSet == {Z(90), Z(450)}
CallSet == {Z(40), Z(130)}
PutSet == {Z(70), Z(150)}
RedemptionSet == {Z(100)}
ThresholdSet == {Q(85, 100)}
PResetSet == {Z(0), Q(1, 2), Z(1)}
NavSet == {Z(5), Z(60)}

\* the defaults of the keyword parameters of calculate_cb_with_reset
DefaultThreshold == Q(85, 100)
DefaultPReset == Q(3, 10)
DefaultNav == Z(5)

\* a call of calculate_cb_value leaves the three reset parameters unused
ValueParams ==
  { [fn |-> "calculate_cb_value", S0 |-> x[1], K |-> x[2], u |-> x[3],
     growth |-> x[4], steps |-> x[5], pure_bond_value |-> x[6],
     call_price |-> x[7], put_price |-> x[8], redemption_price |-> x[9],
     reset_threshold_pct |-> DefaultThreshold, p_reset |-> DefaultPReset,
     net_asset_val |-> DefaultNav] :
       x \in S0Set \X KSet \X USet \X GrowthSet \X (1..MaxSteps) \X PureBondSet
             \X CallSet \X PutSet \X RedemptionSet }

ResetParams ==
  { [fn |-> "calculate_cb_with_reset", S0 |-> x[1], K |-> x[2], u |-> x[3],
     growth |-> x[4], steps |-> x[5], pure_bond_value |-> x[6],
     call_price |-> x[7], put_price |-> x[8], redemption_price |-> x[9],
     reset_threshold_pct |-> x[10], p_reset |-> x[11], net_asset_val |-> x[12]] :
       x \in S0Set \X KSet \X USet \X GrowthSet \X (1..MaxSteps) \X PureBondSet
             \X CallSet \X PutSet \X RedemptionSet \X ThresholdSet \X PResetSet
             \X NavSet }

\* a low-volatility, high-rate call: exp(r*dt) = 4 > u = 5/4, so p = 64/9
HighRateParams ==
  { [fn |-> "calculate_cb_with_reset", S0 |-> Z(80), K |-> Z(100), u |-> Q(5, 4),
     growth |-> Z(4), steps |-> 2, pure_bond_value |-> Z(50),
     call_price |-> Z(130), put_price |-> Z(30), redemption_price |-> Z(60),
     reset_threshold_pct |-> DefaultThreshold, p_reset |-> a,
     net_asset_val |-> DefaultNav] : a \in PResetSet }

\* the one-step fixture: r = 0, u = 2, so d = 1/2, p = 1/3, df = 1
FixtureCallPut == {<<Z(150), Z(70)>>, <<Z(90), Z(70)>>, <<Z(150), Z(110)>>}

FixtureParams ==
  { [fn |-> x[1], S0 |-> Z(100), K |-> Z(100), u |-> Z(2), growth |-> Z(1),
     steps |-> 1, pure_bond_value |-> Z(90), call_price |-> x[2][1],
     put_price |-> x[2][2], redemption_price |-> Z(100),
     reset_threshold_pct |-> DefaultThreshold, p_reset |-> DefaultPReset,
     net_asset_val |-> DefaultNav] :
       x \in {"calculate_cb_value", "calculate_cb_with_reset"} \X FixtureCallPut }

Params == ValueParams \cup ResetParams \cup HighRateParams \cup FixtureParams

\* sigma = 0 (any r) or T = 0 (then exp(r*dt) = 1 too): u = exp(0) = 1 = d
DegenerateGrowthSet == {Z(1), Q(5, 4)}

DegenerateParams ==
  { [fn |-> x[1], S0 |-> x[2], K |-> Z(100), u |-> Z(1), growth |-> x[3],
     steps |-> x[4], pure_bond_value |-> Z(90), call_price |-> x[5],
     put_price |-> x[6], redemption_price |-> Z(100),
     reset_threshold_pct |-> DefaultThreshold, p_reset |-> DefaultPReset,
     net_asset_val |-> DefaultNav] :
       x \in {"calculate_cb_value", "calculate_cb_with_reset"} \X S0Set
             \X DegenerateGrowthSet \X (1..MaxSteps) \X CallSet \X PutSet }

---------------------------------------------------------------------------
(* Lattice parameters *)

u(q) == q.u
d(q) == RDiv(Z(1), u(q))
p(q) == RDiv(RSub(q.growth, d(q)), RSub(u(q), d(q)))
df(q) == RDiv(Z(1), q.growth)
conversion_ratio(q) == RDiv(Z(100), q.K)

\* S0 * d ** (n - k) * u ** k : node k (0-based) of layer n
StockPrice(q, n, k) == RMul(RMul(q.S0, RPow(d(q), n - k)), RPow(u(q), k))
StockPrices(q, n) == [k \in 1..(n + 1) |-> StockPrice(q, n, k - 1)]

ConvVal(q, s) == RMul(s, conversion_ratio(q))

\* the put floor applied to the maturity layer as well
TerminalValuesWithPut(q) ==
  [k \in 1..(q.steps + 1) |->
     LET s == StockPrice(q, q.steps, k - 1)
         v == RMax(ConvVal(q, s), q.redemption_price)
     IN IF RLe(s, q.put_price) THEN RMax(v, q.put_price) ELSE v]

TerminalValues(q) ==
  [k \in 1..(q.steps + 1) |->
     RMax(ConvVal(q, StockPrice(q, q.steps, k - 1)), q.redemption_price)]

\* the weights p and 1 - p exchanged
ExpectationSwapped(q, vs) ==
  [k \in 1..(Len(vs) - 1) |->
     RMul(RAdd(RMul(p(q), vs[k]), RMul(RSub(Z(1), p(q)), vs[k + 1])), df(q))]

Expectation(q, vs) ==
  [k \in 1..(Len(vs) - 1) |->
     RMul(RAdd(RMul(p(q), vs[k + 1]), RMul(RSub(Z(1), p(q)), vs[k])), df(q))]

---------------------------------------------------------------------------
(* Overlay rules of one node: v is the node's value, s its stock price *)

\* calculate_cb_value, rule A
BondFloorRamp(q, n) == RMul(RDiv(q.pure_bond_value, Z(q.steps)), Z(n))

\* min in place of max
RuleBondFloorMin(q, v, n) == RMin(v, BondFloorRamp(q, n))

RuleBondFloor(q, v, n) == RMax(v, BondFloorRamp(q, n))

\* calculate_cb_value, rule B
RuleConversion(q, v, s) == RMax(v, ConvVal(q, s))

\* the cap taken at the redemption price alone
RuleForcedCallRedemptionOnly(q, v, s) ==
  IF RLe(q.call_price, s) THEN RMin(v, q.redemption_price) ELSE v

\* the cap assigned, not taken as a minimum
RuleForcedCallAssign(q, v, s) ==
  IF RLe(q.call_price, s) THEN RMax(q.redemption_price, ConvVal(q, s)) ELSE v

\* forced call: rule C of calculate_cb_value, rule D of calculate_cb_with_reset
RuleForcedCall(q, v, s) ==
  IF RLe(q.call_price, s)
    THEN RMin(v, RMax(q.redemption_price, ConvVal(q, s)))
    ELSE v

\* the put trigger compared the wrong way round
RulePutReversed(q, v, s) ==
  IF RLe(q.put_price, s) THEN RMax(v, q.put_price) ELSE v

\* put protection: rule D of calculate_cb_value, rule E of calculate_cb_with_reset
RulePut(q, v, s) ==
  IF RLe(s, q.put_price) THEN RMax(v, q.put_price) ELSE v

\* calculate_cb_with_reset: the bond floor of step n
BondFloorInterp(q, n) ==
  RAdd(q.pure_bond_value,
       RMul(RSub(q.redemption_price, q.pure_bond_value),
            RSub(Z(1), Q(n, q.steps))))

\* calculate_cb_with_reset, rule B
ResetTriggered(q, s) == RLe(s, RMul(q.K, q.reset_threshold_pct))

KNew(q, s) == RMax(RMul(s, Q(102, 100)), q.net_asset_val)

\* the value after a reset without the 20% premium
VAfterResetAtParity(q, s) == RMul(RDiv(Z(100), KNew(q, s)), s)

VAfterReset(q, s) == RMul(RMul(RDiv(Z(100), KNew(q, s)), s), Q(120, 100))

\* the two weights exchanged
BlendSwapped(q, v, w) == RAdd(RMul(q.p_reset, v), RMul(RSub(Z(1), q.p_reset), w))

Blend(q, v, w) == RAdd(RMul(RSub(Z(1), q.p_reset), v), RMul(q.p_reset, w))

\* the blend taken at every triggered node
RuleResetUnguarded(q, v, s) ==
  IF ResetTriggered(q, s) THEN Blend(q, v, VAfterReset(q, s)) ELSE v

RuleReset(q, v, s) ==
  IF ResetTriggered(q, s) /\ RLt(v, VAfterReset(q, s))
    THEN Blend(q, v, VAfterReset(q, s))
    ELSE v

\* calculate_cb_with_reset, rule C
RuleMax3(q, v, s, floor) == RMax(RMax(v, floor), ConvVal(q, s))

---------------------------------------------------------------------------
(* The state machine: one invocation of either function *)

Unset == Z(0)

Init ==
  /\ par \in Params
  /\ pc = "start"
  /\ i = 0
  /\ j = 0
  /\ values = <<>>
  /\ st = <<>>
  /\ current_bond_floor = Unset
  /\ k_new = Unset
  /\ v_after_reset = Unset
  /\ result = Unset
  /\ calls = {}

\* lattice parameters, terminal stock prices and terminal values
Terminal ==
  /\ pc = "start"
  /\ st' = StockPrices(par, par.steps)
  /\ values' = TerminalValues(par)
  /\ i' = par.steps
  /\ pc' = "loop"
  /\ UNCHANGED <<calls, par, j, current_bond_floor, k_new, v_after_reset, result>>

\* for i in range(steps - 1, -1, -1): expectation, the layer's prices, the floor
Expect ==
  /\ pc = "loop"
  /\ i > 0
  /\ i' = i - 1
  /\ values' = Expectation(par, values)
  /\ st' = StockPrices(par, i - 1)
  /\ current_bond_floor' =
       IF par.fn = "calculate_cb_with_reset"
         THEN BondFloorInterp(par, i - 1)
         ELSE current_bond_floor
  /\ j' = 0
  /\ pc' = IF par.fn = "calculate_cb_value" THEN "vA" ELSE "rB"
  /\ UNCHANGED <<calls, par, k_new, v_after_reset, result>>

SetNode(v) == values' = [values EXCEPT ![j + 1] = v]

\* the node loop left after its first node
NextNodeFirstOnly(first) ==
  /\ j' = j + 1
  /\ pc' = "loop"

\* the end of one iteration of for j in range(len(values))
NextNode(first) ==
  /\ j' = j + 1
  /\ pc' = IF j + 1 < Len(values) THEN first ELSE "loop"

ValueA ==
  /\ pc = "vA"
  /\ SetNode(RuleBondFloor(par, values[j + 1], i))
  /\ pc' = "vB"
  /\ UNCHANGED <<calls, par, i, j, st, current_bond_floor, k_new, v_after_reset, result>>

ValueB ==
  /\ pc = "vB"
  /\ SetNode(RuleConversion(par, values[j + 1], st[j + 1]))
  /\ pc' = "vC"
  /\ UNCHANGED <<calls, par, i, j, st, current_bond_floor, k_new, v_after_reset, result>>

ValueC ==
  /\ pc = "vC"
  /\ SetNode(RuleForcedCall(par, values[j + 1], st[j + 1]))
  /\ pc' = "vD"
  /\ UNCHANGED <<calls, par, i, j, st, current_bond_floor, k_new, v_after_reset, result>>

ValueD ==
  /\ pc = "vD"
  /\ SetNode(RulePut(par, values[j + 1], st[j + 1]))
  /\ NextNode("vA")
  /\ UNCHANGED <<calls, par, i, st, current_bond_floor, k_new, v_after_reset, result>>

\* the blend dedented out of the trigger test: an untriggered node reads the
\* v_after_reset an earlier node, or an earlier call, left behind
ResetBStale ==
  /\ pc = "rB"
  /\ k_new' = IF ResetTriggered(par, st[j + 1]) THEN KNew(par, st[j + 1]) ELSE k_new
  /\ v_after_reset' =
       IF ResetTriggered(par, st[j + 1])
         THEN VAfterReset(par, st[j + 1])
         ELSE v_after_reset
  /\ SetNode(IF RLt(values[j + 1], v_after_reset')
               THEN Blend(par, values[j + 1], v_after_reset')
               ELSE values[j + 1])
  /\ pc' = "rC"
  /\ UNCHANGED <<calls, par, i, j, st, current_bond_floor, result>>

ResetB ==
  /\ pc = "rB"
  /\ SetNode(RuleReset(par, values[j + 1], st[j + 1]))
  /\ k_new' = IF ResetTriggered(par, st[j + 1]) THEN KNew(par, st[j + 1]) ELSE k_new
  /\ v_after_reset' =
       IF ResetTriggered(par, st[j + 1])
         THEN VAfterReset(par, st[j + 1])
         ELSE v_after_reset
  /\ pc' = "rC"
  /\ UNCHANGED <<calls, par, i, j, st, current_bond_floor, result>>

ResetC ==
  /\ pc = "rC"
  /\ SetNode(RuleMax3(par, values[j + 1], st[j + 1], current_bond_floor))
  /\ pc' = "rD"
  /\ UNCHANGED <<calls, par, i, j, st, current_bond_floor, k_new, v_after_reset, result>>

ResetD ==
  /\ pc = "rD"
  /\ SetNode(RuleForcedCall(par, values[j + 1], st[j + 1]))
  /\ pc' = "rE"
  /\ UNCHANGED <<calls, par, i, j, st, current_bond_floor, k_new, v_after_reset, result>>

ResetE ==
  /\ pc = "rE"
  /\ SetNode(RulePut(par, values[j + 1], st[j + 1]))
  /\ NextNode("rB")
  /\ UNCHANGED <<calls, par, i, st, current_bond_floor, k_new, v_after_reset, result>>

\* return values[0]
Return ==
  /\ pc = "loop"
  /\ i = 0
  /\ result' = values[1]
  /\ pc' = "done"
  /\ UNCHANGED <<calls, par, i, j, values, st, current_bond_floor, k_new, v_after_reset>>

Next ==
  \/ Terminal
  \/ Expect
  \/ ValueA
  \/ ValueB
  \/ ValueC
  \/ ValueD
  \/ ResetB
  \/ ResetC
  \/ ResetD
  \/ ResetE
  \/ Return

Spec == Init /\ [][Next]_vars

\* a call, once made, keeps executing its statements until it returns
SpecFair == Init /\ [][Next]_vars /\ WF_vars(Next)

\* the same program called with sigma = 0 or T = 0
InitDegenerate ==
  /\ par \in DegenerateParams
  /\ pc = "start"
  /\ i = 0
  /\ j = 0
  /\ values = <<>>
  /\ st = <<>>
  /\ current_bond_floor = Unset
  /\ k_new = Unset
  /\ v_after_reset = Unset
  /\ result = Unset
  /\ calls = {}

SpecDegenerate == InitDegenerate /\ [][Next]_vars

---------------------------------------------------------------------------
(* A script that calls the two functions one after the other, as the example
   run at the end of zz.py does *)

CallParams ==
  { q \in Params :
      /\ q.K = Z(100) /\ q.u = Q(3, 2) /\ q.growth = Q(5, 4)
      /\ q.steps <= 2
      /\ q.pure_bond_value = Z(90)
      /\ q.call_price = Z(130) /\ q.put_price = Z(70)
      /\ q.p_reset \in {DefaultPReset, Q(1, 2)}
      /\ q.net_asset_val = DefaultNav }

InitCalls ==
  /\ par \in CallParams
  /\ pc = "start"
  /\ i = 0
  /\ j = 0
  /\ values = <<>>
  /\ st = <<>>
  /\ current_bond_floor = Unset
  /\ k_new = Unset
  /\ v_after_reset = Unset
  /\ result = Unset
  /\ calls = {}

\* the caller keeps the returned value and makes the next call.  The new
\* frame's locals are unbound: the model leaves the last call's values in them,
\* so that a read before the first write would show.
NewCall ==
  /\ pc = "done"
  /\ calls' = calls \cup {[par |-> par, result |-> result]}
  /\ par' \in CallParams
  /\ pc' = "start"
  /\ UNCHANGED <<i, j, values, st, current_bond_floor, k_new, v_after_reset, result>>

NextCalls ==
  \/ Terminal
  \/ Expect
  \/ ValueA
  \/ ValueB
  \/ ValueC
  \/ ValueD
  \/ ResetB
  \/ ResetC
  \/ ResetD
  \/ ResetE
  \/ Return
  \/ NewCall

SpecCalls == InitCalls /\ [][NextCalls]_vars

---------------------------------------------------------------------------
(* Vocabulary of the properties *)

RulePcs == {"vA", "vB", "vC", "vD", "rB", "rC", "rD", "rE"}

\* the nodes (0-based) of the current layer i that have had every overlay
FinalNodes ==
  IF pc \in RulePcs THEN 0..(j - 1)
  ELSE IF pc \in {"loop", "done"} /\ i < par.steps THEN 0..i
  ELSE {}

Cap(q, s) == RMax(q.redemption_price, ConvVal(q, s))

FloorOf(q, n) ==
  IF q.fn = "calculate_cb_value" THEN BondFloorRamp(q, n) ELSE BondFloorInterp(q, n)

TypeOK ==
  /\ par \in Params
  /\ pc \in RulePcs \cup {"start", "loop", "done"}
  /\ i \in 0..MaxSteps
  /\ j \in 0..MaxSteps
  /\ pc # "start" => Len(values) = i + 1 /\ Len(st) = i + 1

---------------------------------------------------------------------------
(* The two functions as functions of their parameters *)

OverlayValue(q, v, s, n) ==
  RulePut(q, RuleForcedCall(q, RuleConversion(q, RuleBondFloor(q, v, n), s), s), s)

OverlayReset(q, v, s, n) ==
  RulePut(q, RuleForcedCall(q,
    RuleMax3(q, RuleReset(q, v, s), s, BondFloorInterp(q, n)), s), s)

RECURSIVE Layer(_, _)
Layer(q, n) ==
  IF n = q.steps THEN TerminalValues(q)
  ELSE LET e == Expectation(q, Layer(q, n + 1))
       IN [k \in 1..(n + 1) |->
             IF q.fn = "calculate_cb_value"
               THEN OverlayValue(q, e[k], StockPrice(q, n, k - 1), n)
               ELSE OverlayReset(q, e[k], StockPrice(q, n, k - 1), n)]

Engine(q) == Layer(q, 0)[1]

WithPReset(q, a) == [q EXCEPT !.p_reset = a]

PGrid == {Z(0), Q(1, 4), Q(1, 2), Q(3, 4), Z(1)}

NonDecreasing(q) ==
  \A a, b \in PGrid : RLe(a, b) => RLe(Engine(WithPReset(q, a)), Engine(WithPReset(q, b)))

NonIncreasing(q) ==
  \A a, b \in PGrid : RLe(a, b) => RLe(Engine(WithPReset(q, b)), Engine(WithPReset(q, a)))

\* the nodes of the maturity layer, before any backward step
TerminalNodes == IF pc = "loop" /\ i = par.steps THEN 0..i ELSE {}

NodePrice(k) == StockPrice(par, i, k)
NodeValue(k) == values[k + 1]

---------------------------------------------------------------------------
(* Properties *)

\* C1 (put floor): in both functions, every fully overlaid node of steps
\* 0..steps-1 whose stock price S0*d^(i-j)*u^j is <= put_price has a value
\* >= put_price, whatever the parameters.
C1_PutFloor ==
  \A k \in FinalNodes :
    RLe(NodePrice(k), par.put_price) => RLe(par.put_price, NodeValue(k))

\* a node where the reset and the call trigger fired too, the call capped the
\* value below put_price and the put floor, applied last, restored it
C1_Witness ==
  /\ par.fn = "calculate_cb_with_reset"
  /\ \E k \in FinalNodes :
       /\ ResetTriggered(par, NodePrice(k))
       /\ RLe(par.call_price, NodePrice(k))
       /\ RLe(NodePrice(k), par.put_price)
       /\ RLt(Cap(par, NodePrice(k)), par.put_price)
       /\ NodeValue(k) = par.put_price

\* C2 (call cap), as stated: every fully overlaid node whose stock price is
\* >= call_price has a value <= max(redemption_price, conversion value).
C2_CallCap ==
  \A k \in FinalNodes :
    RLe(par.call_price, NodePrice(k)) => RLe(NodeValue(k), Cap(par, NodePrice(k)))

\* C3 (bond-floor dominance), as stated: every fully overlaid node has a value
\* >= the bond floor of its step.
C3_FloorDominanceAsStated ==
  \A k \in FinalNodes : RLe(FloorOf(par, i), NodeValue(k))

\* C3, amended: a node the call trigger does not reach is >= the bond floor of
\* its step; a node at or above call_price is >= min(bond floor, max(redemption
\* price, conversion value)).
C3_FloorDominance ==
  \A k \in FinalNodes :
    IF RLe(par.call_price, NodePrice(k))
      THEN RLe(RMin(FloorOf(par, i), Cap(par, NodePrice(k))), NodeValue(k))
      ELSE RLe(FloorOf(par, i), NodeValue(k))

\* a called node left at the cap, below the bond floor of its step, and in the
\* same layer a node out of the call's reach that rests on the floor
C3_Witness ==
  /\ \E k \in FinalNodes :
       /\ RLe(par.call_price, NodePrice(k))
       /\ RLt(NodeValue(k), FloorOf(par, i))
       /\ NodeValue(k) = Cap(par, NodePrice(k))
  /\ \E k \in FinalNodes :
       /\ RLt(NodePrice(k), par.call_price)
       /\ NodeValue(k) = FloorOf(par, i)

\* C4 (conversion floor): every node of every layer 0..steps, the maturity
\* layer included, is worth at least its conversion value (100/K)*stock price,
\* and the returned value is at least (100/K)*S0.
C4_ConversionFloor ==
  /\ \A k \in FinalNodes \cup TerminalNodes :
       RLe(RDiv(RMul(Z(100), NodePrice(k)), par.K), NodeValue(k))
  /\ pc = "done" => RLe(RDiv(RMul(Z(100), par.S0), par.K), result)

\* a called node whose conversion value exceeds the redemption price and whose
\* value was capped down to exactly that conversion value
C4_Witness ==
  \E k \in FinalNodes :
    /\ RLe(par.call_price, NodePrice(k))
    /\ RLt(par.redemption_price, ConvVal(par, NodePrice(k)))
    /\ NodeValue(k) = ConvVal(par, NodePrice(k))

\* C5 (redemption-anchored floor), as stated: the floor calculate_cb_with_reset
\* uses at step i is pure_bond_value at the root (i = 0) and, for
\* pure_bond_value < redemption_price, does not decrease as i grows to maturity.
C5_FloorRisesFromPureBond ==
  par.fn = "calculate_cb_with_reset" /\ pc \in {"rB", "rC", "rD", "rE"} =>
    /\ i = 0 => current_bond_floor = par.pure_bond_value
    /\ RLt(par.pure_bond_value, par.redemption_price) =>
         \A n \in 0..i : RLe(BondFloorInterp(par, n), current_bond_floor)

\* C6 (terminal correctness): before any backward step the value vector has
\* steps+1 entries and entry j is max((100/K)*S0*d^(steps-j)*u^j,
\* redemption_price): no floor, call, put or reset overlay on the maturity layer.
C6_TerminalCorrect ==
  pc = "loop" /\ i = par.steps =>
    /\ Len(values) = par.steps + 1
    /\ \A k \in 0..par.steps :
         values[k + 1] =
           RMax(RMul(RDiv(Z(100), par.K),
                     RMul(RMul(par.S0, RPow(RDiv(Z(1), par.u), par.steps - k)),
                          RPow(par.u, k))),
                par.redemption_price)

\* a maturity layer with a node at or below put_price left under put_price,
\* and a node worth its conversion value
C6_Witness ==
  /\ pc = "loop" /\ i = par.steps
  /\ \E k \in TerminalNodes :
       RLe(NodePrice(k), par.put_price) /\ RLt(NodeValue(k), par.put_price)
  /\ \E k \in TerminalNodes :
       RLt(par.redemption_price, NodeValue(k))

\* the value of node j as the expectation step left it
RawValue == Expectation(par, Layer(par, i + 1))[j + 1]

\* C7 (reset blend), as stated: at every node whose stock price is
\* <= K*reset_threshold_pct the raw value v becomes
\* (1-p_reset)*v + p_reset*v_after_reset, with k_new = max(stock*1.02,
\* net_asset_val), whether v_after_reset is above or below v.
C7_BlendAtEveryTriggeredNode ==
  [][pc = "rB" /\ ResetTriggered(par, st[j + 1]) =>
       /\ values[j + 1] = RawValue
       /\ k_new' = RMax(RMul(st[j + 1], Q(102, 100)), par.net_asset_val)
       /\ values'[j + 1] =
            RAdd(RMul(RSub(Z(1), par.p_reset), values[j + 1]),
                 RMul(par.p_reset, v_after_reset'))]_vars

\* C7, amended: at a triggered node the raw value v becomes
\* (1-p_reset)*v + p_reset*v_after_reset only when v_after_reset > v, and is
\* left as it is otherwise; k_new = max(stock*1.02, net_asset_val).
C7_BlendWhenHigher ==
  [][pc = "rB" /\ ResetTriggered(par, st[j + 1]) =>
       /\ values[j + 1] = RawValue
       /\ k_new' = RMax(RMul(st[j + 1], Q(102, 100)), par.net_asset_val)
       /\ values'[j + 1] =
            IF RLt(values[j + 1], v_after_reset')
              THEN RAdd(RMul(RSub(Z(1), par.p_reset), values[j + 1]),
                        RMul(par.p_reset, v_after_reset'))
              ELSE values[j + 1]]_vars

\* rule B has just run on a triggered node whose value after a reset is below
\* the node's value: the value is the raw one although p_reset > 0
C7_Witness ==
  /\ pc = "rC"
  /\ ResetTriggered(par, st[j + 1])
  /\ RLt(Z(0), par.p_reset)
  /\ RLt(v_after_reset, values[j + 1])
  /\ values[j + 1] = RawValue

\* C8 (reset before the clamps), as stated: the blend acts on the raw
\* post-expectation value, and a node where the reset fired ends >= its
\* conversion value, >= put_price when stock <= put_price, and
\* <= max(redemption_price, conversion value) when stock >= call_price.
C8_ResetThenClamps ==
  par.fn = "calculate_cb_with_reset" =>
    /\ pc = "rB" => values[j + 1] = RawValue
    /\ \A k \in FinalNodes :
         ResetTriggered(par, NodePrice(k)) =>
           /\ RLe(ConvVal(par, NodePrice(k)), NodeValue(k))
           /\ RLe(NodePrice(k), par.put_price) => RLe(par.put_price, NodeValue(k))
           /\ RLe(par.call_price, NodePrice(k)) =>
                RLe(NodeValue(k), Cap(par, NodePrice(k)))

\* C9 (reset monotonicity), as stated: with the other parameters fixed the
\* returned value is monotone in p_reset over [0,1], so the result at any
\* p_reset lies between the results at p_reset = 0 and p_reset = 1.
C9_ResetMonotone ==
  pc = "done" /\ par.fn = "calculate_cb_with_reset" =>
    /\ NonDecreasing(par) \/ NonIncreasing(par)
    /\ \/ RLe(Engine(WithPReset(par, Z(0))), result)
          /\ RLe(result, Engine(WithPReset(par, Z(1))))
       \/ RLe(Engine(WithPReset(par, Z(1))), result)
          /\ RLe(result, Engine(WithPReset(par, Z(0))))

\* C10 (default markup), as stated: the value after a reset at a triggered
\* node is exactly (100/k_new)*stock price, markup 1.0.
C10_MarkupOne ==
  pc \in {"rC", "rD", "rE"} /\ ResetTriggered(par, st[j + 1]) =>
    v_after_reset = RMul(RDiv(Z(100), k_new), st[j + 1])

\* C10, amended: at a triggered node the value after a reset is
\* (100/k_new)*stock price*1.20 in every call: the markup 1.20 is fixed in the
\* code and no parameter sets it.
C10_MarkupFixed ==
  pc \in {"rC", "rD", "rE"} /\ ResetTriggered(par, st[j + 1]) =>
    /\ k_new = RMax(RMul(st[j + 1], Q(102, 100)), par.net_asset_val)
    /\ v_after_reset = RMul(RMul(RDiv(Z(100), k_new), st[j + 1]), Q(120, 100))

\* rule B has just run on a triggered node with k_new = stock*1.02, the value
\* after a reset being 100/1.02*1.20
C10_Witness ==
  /\ pc = "rC"
  /\ ResetTriggered(par, st[j + 1])
  /\ k_new = RMul(st[j + 1], Q(102, 100))
  /\ v_after_reset = Q(2000, 17)

\* C11 (degenerate lattice), as stated: with sigma = 0 or dt <= 0, so that
\* u = d = 1, the engine fails and returns nothing: it never goes on to the
\* maturity layer or the backward induction.
C11_DegenerateFails ==
  u(par) = d(par) => pc = "start"

\* the backward induction has started: p has weighted an expectation
InductionRun == pc \in RulePcs \cup {"done"} \/ (pc = "loop" /\ i < par.steps)

\* C12 (no-arbitrage guard), as stated: whenever the backward induction runs,
\* the risk-neutral probability p = (exp(r*dt) - d)/(u - d) satisfies 0 < p < 1.
C12_NoArbitrage ==
  InductionRun => RLt(Z(0), p(par)) /\ RLt(p(par), Z(1))

\* an input that breaks an invariant of the contract parameters
InvalidParameter(q) ==
  \/ RLe(q.S0, Z(0))
  \/ RLe(q.K, Z(0))
  \/ q.steps < 1
  \/ RLe(q.call_price, q.put_price)
  \/ RLt(q.p_reset, Z(0))
  \/ RLt(Z(1), q.p_reset)

\* C13 (invalid parameters fail fast), as stated: with S0 <= 0, K <= 0,
\* steps < 1, call_price <= put_price or p_reset outside [0,1] the engine
\* stops before the backward induction and never returns a value.
C13_InvalidFailsFast ==
  InvalidParameter(par) => ~InductionRun

IsFixture(q) == q \in FixtureParams

\* C14 (one-step fixture): with S0 = 100, K = 100, r = 0, u = 2, steps = 1,
\* pure_bond_value = 90, redemption_price = 100, either function returns 400/3
\* for call 150 / put 70, exactly 100 for call 90 / put 70, and 400/3 for
\* call 150 / put 110.
C14_Fixture ==
  pc = "done" /\ IsFixture(par) =>
    /\ par.call_price = Z(150) /\ par.put_price = Z(70) => result = Q(400, 3)
    /\ par.call_price = Z(90) /\ par.put_price = Z(70) => result = Z(100)
    /\ par.call_price = Z(150) /\ par.put_price = Z(110) => result = Q(400, 3)

\* the reset function has returned 100 for the fixture whose call cap fires
C14_Witness ==
  /\ pc = "done"
  /\ IsFixture(par)
  /\ par.fn = "calculate_cb_with_reset"
  /\ par.call_price = Z(90)
  /\ result = Z(100)

\* C15 (determinism and statelessness): an invocation returns what every
\* earlier invocation with the same parameters returned, whatever was called in
\* between and whatever those calls left behind.
C15_Deterministic ==
  pc = "done" => \A c \in calls : c.par = par => c.result = result

\* a call has returned the same value as an earlier call with its parameters,
\* after a call of the other function, whose triggered reset is still in k_new
C15_Witness ==
  /\ pc = "done"
  /\ par.fn = "calculate_cb_value"
  /\ k_new # Unset
  /\ \E c \in calls : c.par = par /\ c.result = result
  /\ \E c \in calls : c.par.fn = "calculate_cb_with_reset"

\* a step that changes i: the entry into the loop, or one expectation
C16_Step ==
  i' # i =>
    \/ pc = "start" /\ i' = par.steps
    \/ /\ pc = "loop"
       /\ i' = i - 1
       /\ i' >= 0
       /\ Len(values) = i' + 2
       /\ values = Layer(par, i)
       /\ Len(values') = i' + 1
       /\ \A k \in 1..(i' + 1) :
            values'[k] =
              RMul(RAdd(RMul(p(par), values[k + 1]),
                        RMul(RSub(Z(1), p(par)), values[k])),
                   df(par))

\* C16 (backward-induction progress): the loop takes i through steps-1, ..., 0,
\* one at a time, and ends; step i starts from the fully overlaid vector of
\* step i+1, of length i+2, and its vector, of length i+1, holds
\* (p*value[j+1] + (1-p)*value[j])*df at entry j before the overlays; after
\* step 0 the vector has length 1 and its entry is the returned value.
C16_Progress ==
  /\ [][C16_Step]_vars
  /\ [](pc = "done" => i = 0 /\ Len(values) = 1 /\ result = values[1])
  /\ <>(pc = "done")

\* a call with the largest number of steps has returned
C16_Witness ==
  /\ pc = "done"
  /\ par.steps = MaxSteps
  /\ Len(values) = 1
  /\ result = values[1]

\* what one overlay rule does to the node it is applied to, and to the others
C17_Step ==
  pc \in RulePcs =>
    /\ Len(values') = Len(values)
    /\ \A k \in 1..Len(values) : k # j + 1 => values'[k] = values[k]
    /\ pc \in {"vC", "rD"} =>
         /\ RLe(values'[j + 1], values[j + 1])
         /\ RLt(st[j + 1], par.call_price) => values'[j + 1] = values[j + 1]
    /\ pc \in {"vD", "rE"} =>
         /\ RLe(values[j + 1], values'[j + 1])
         /\ RLt(par.put_price, st[j + 1]) => values'[j + 1] = values[j + 1]
         /\ RLe(par.put_price, values[j + 1]) => values'[j + 1] = values[j + 1]
    /\ pc \in {"vA", "vB", "rC"} => RLe(values[j + 1], values'[j + 1])

\* C17 (overlay direction and frame): the forced-call rule never raises a
\* node's value and leaves it alone when the stock price is below call_price;
\* the put rule never lowers it and leaves it alone when the stock price is
\* above put_price or the value is already at least put_price; the bond-floor
\* and conversion rules never lower it; no rule touches another node.
C17_OverlayDirection == [][C17_Step]_vars

\* the forced call has just lowered a node from above the cap to the cap,
\* with call_price above put_price
C17_Witness ==
  /\ pc = "vD"
  /\ RLt(par.put_price, par.call_price)
  /\ RLe(par.call_price, st[j + 1])
  /\ values[j + 1] = Cap(par, st[j + 1])
  /\ RLt(Cap(par, st[j + 1]),
         RuleConversion(par, RuleBondFloor(par, RawValue, i), st[j + 1]))

\* calculate_cb_with_reset with lines 135-141 (the reset stage) left out
OverlayNoReset(q, v, s, n) ==
  RulePut(q, RuleForcedCall(q, RuleMax3(q, v, s, BondFloorInterp(q, n)), s), s)

RECURSIVE LayerNoReset(_, _)
LayerNoReset(q, n) ==
  IF n = q.steps THEN TerminalValues(q)
  ELSE LET e == Expectation(q, LayerNoReset(q, n + 1))
       IN [k \in 1..(n + 1) |-> OverlayNoReset(q, e[k], StockPrice(q, n, k - 1), n)]

ThresholdGrid == {Q(1, 2), Q(85, 100), Z(2)}

WithReset(q, a, n) == [q EXCEPT !.reset_threshold_pct = a, !.net_asset_val = n]

\* C18 (reset disabled at p_reset = 0): with p_reset = 0 every finished node of
\* calculate_cb_with_reset holds the value the function gives with the reset
\* stage left out, and the result is the same for every reset_threshold_pct
\* and net_asset_val.
C18_ResetDisabled ==
  par.fn = "calculate_cb_with_reset" /\ par.p_reset = Z(0) =>
    /\ \A k \in FinalNodes : values[k + 1] = LayerNoReset(par, i)[k + 1]
    /\ pc = "rC" => values[j + 1] = RawValue
    /\ pc = "done" =>
         /\ result = LayerNoReset(par, 0)[1]
         /\ \A a \in ThresholdGrid, n \in NavSet : Engine(WithReset(par, a, n)) = result

\* with p_reset = 0 the reset stage has just run at a triggered node whose
\* value after a reset is higher, so the blend was taken
C18_Witness ==
  /\ par.fn = "calculate_cb_with_reset"
  /\ par.p_reset = Z(0)
  /\ pc = "rC"
  /\ ResetTriggered(par, st[j + 1])
  /\ RLt(values[j + 1], VAfterReset(par, st[j + 1]))

====
